---- MODULE Spec2Model ----
(***************************************************************************)
(* Model of hanjm/vlight: the bounded fan-out FetchFunds (limiter channel, *)
(* unbuffered foundCh, one-slot errCh, WaitGroup, closer goroutine) and    *)
(* the concurrent-orchestration main (errgroup with the email and the      *)
(* serverChan notification tasks).                                         *)
(*                                                                         *)
(* src/unnamed/part_000 is the concurrent-orchestration version of the     *)
(* program; src/main.go is the earlier version, whose FetchFunds is the    *)
(* same code without the context argument.                                 *)
(***************************************************************************)
EXTENDS Integers, Sequences, FiniteSets, TLC

\* ------------------------------------------------------------------ bounds
\* Longest identifier list handed to FetchFunds when it is run on its own.
MaxCodes == 4
\* Longest identifier list of a whole run of main.
MaxMainCodes == 2
\* Longest record sequence the formatters are applied to on their own.
MaxFunds == 2

\* --------------------------------------------------------- program constants
\* const concurrency = 3 : capacity of the limiter channel.
concurrency == 3
\* errCh := make(chan error, 1) : capacity of the error channel.
\* (faulty variant of ErrChCap: an unbuffered channel)
ErrChUnbuffered == 1 - 1
ErrChCap == 1
\* const minRiseNum, maxFallNum = 1, -0.8, in hundredths of a percent point.
minRiseNum == 100
maxFallNum == -80

\* The nil error.  Every error is a string, so nil gets a string of its own.
NilErr == "<nil>"

\* ---------------------------------------------------------------- float64
\* Fund.Gszzl is a float64.  A growth value is modelled as the pair
\* [pct, tiny] standing for the double nearest to pct/100 + tiny * 2^-54:
\* pct counts hundredths (the upstream sends two decimals, "1.34"), tiny
\* counts units of 2^-54 and is used only with pct = 0 (a body such as
\* "gszzl":"1e-16" parses to such a double).  Values with different pct lie
\* at least 0.01 apart, far more than any rounding step.
Gsz(p, t) == [pct |-> p, tiny |-> t]

\* a < b on float64 values
FloatLess(a, b) == a.pct < b.pct \/ (a.pct = b.pct /\ a.tiny < b.tiny)

\* Spacing of the doubles in [1, 2) (2^-52) and in [1/2, 1) (2^-53), in units
\* of 2^-54.
UlpAbove == 4
UlpBelow == 2

\* n rounded to the nearest multiple of q, ties to the even multiple
\* (IEEE-754 round-to-nearest-even, the rounding of Go's float64 +).
RoundHalfEven(n, q) ==
    LET lo == q * (n \div q)
        r  == n % q
    IN  IF 2 * r < q THEN lo
        ELSE IF 2 * r > q THEN lo + q
        ELSE IF (n \div q) % 2 = 0 THEN lo ELSE lo + q

\* g + 1 in float64.  For pct = 0 the exact sum 1 + tiny * 2^-54 is rounded to
\* the doubles around 1; for the two-decimal values the sum keeps the order.
AddOne(g) ==
    IF g.pct = 0
    THEN Gsz(100, RoundHalfEven(g.tiny, IF g.tiny >= 0 THEN UlpAbove ELSE UlpBelow))
    ELSE Gsz(g.pct + 100, 0)

\* ------------------------------------------------------------------- data
\* type Fund struct: the fields the program's control flow and the
\* formatters' classification read.
MkFund(code, g) == [FundCode |-> code, Gszzl |-> g]
\* The zero Fund a failed FetchFund returns.
ZeroFund == MkFund("", Gsz(0, 0))

\* The growth the upstream reports for the i-th identifier ("gszzl"): the
\* same rise beyond minRiseNum for the first two, two tiny positive values, a
\* fall beyond maxFallNum, and so on.  Which fetches fail and the order in
\* which the records arrive are left open.
Upstream(i) ==
    <<Gsz(134, 0), Gsz(134, 0), Gsz(0, 2), Gsz(0, 1),
      Gsz(-90, 0), Gsz(0, 3), Gsz(-90, 0), Gsz(0, 1)>>[i]

\* The i-th identifier of a list is either empty or a name of its own
\* (strings.Split(fundCodes, ",") of a list such as "f1,,f3").
Ident(i) == <<"f1", "f2", "f3", "f4", "f5", "f6", "f7", "f8">>[i]
CodeLists(n) ==
    UNION {{s \in [1..k -> {""} \cup {Ident(j) : j \in 1..k}] :
                \A i \in 1..k : s[i] \in {"", Ident(i)}} : k \in 0..n}

\* os.Getenv of the five configuration variables: unset ("") or set.
EnvValues ==
    [SMTP_HOST : {"", "smtp.x"}, EMAIL_NAME : {"", "me@x"},
     EMAIL_PASSWORD : {"", "pw"}, EMAIL_TO : {"", "to@x"}, SCKEY : {"", "key"}]
EnvAllSet ==
    [SMTP_HOST |-> "smtp.x", EMAIL_NAME |-> "me@x", EMAIL_PASSWORD |-> "pw",
     EMAIL_TO |-> "to@x", SCKEY |-> "key"]

VARIABLES
    codes,        \* FetchFunds' argument
    env,          \* the process environment
    thresholds,   \* the formatters' minRiseNum and maxFallNum arguments
    expired,      \* the context's deadline has passed
    \* --- FetchFunds
    limiter,      \* number of tokens in the limiter channel
    dpc,          \* dispatcher goroutine: "acquire", "spawn", "done"
    next,         \* dispatcher's loop index into codes
    tpc,          \* task goroutine i: "none","start","fetch","send","err","done","release","exit"
    tfund,        \* task i's local fund
    terr,         \* task i's local err
    wg,           \* WaitGroup counter
    cpc,          \* closer goroutine: "wait","closeFound","closeErr","done"
    foundClosed,  \* close(foundCh) has run
    errCh,        \* buffer of errCh
    errClosed,    \* close(errCh) has run
    panicked,     \* a send on a closed channel happened
    mpc,          \* main goroutine: "range","recvErr","returned","wait","end"
    funds,        \* FetchFunds' result slice
    \* --- main
    fundResult,   \* main's fundResult
    err,          \* main's err, captured by both notification closures
    epc,          \* email task: "none","start","send","check","reterr","exit"
    spc,          \* serverChan task, same positions
    econtent,     \* email task's content
    stitle,       \* serverChan task's title
    sbody,        \* serverChan task's body
    shouldSend,   \* each notification task's shouldSend
    gErr,         \* errgroup's first error
    exit,         \* "running", "ok" (exit 0), "fatal" (log.Fatal)
    \* --- history (observations, never read by the program)
    started,      \* tasks whose FetchFund call has started
    firstAttempt, \* error of the first publish attempt on errCh
    pendingAtCapture, \* identifiers not yet admitted when the first error was captured
    fetchErr,     \* the error FetchFunds returned
    sends,        \* number of SendEmail / SendServerChan invocations
    failed,       \* channels whose send returned an error
    formatted     \* formatters that have been invoked

fvars == <<limiter, dpc, next, tpc, tfund, terr, wg, cpc, foundClosed, errCh,
           errClosed, panicked, funds, started, firstAttempt, pendingAtCapture>>
mvars == <<fundResult, err, epc, spc, econtent, stitle,
           sbody, shouldSend, gErr, exit, fetchErr, sends, failed, formatted>>
vars == <<codes, env, thresholds, expired, mpc, fvars, mvars>>

Tasks == 1..Len(codes)

\* The thresholds main passes to both formatters.
MainThresholds == [minRise |-> minRiseNum, maxFall |-> maxFallNum]

\* ------------------------------------------------------------------- Init
InitState ==
    /\ limiter = 0
    /\ dpc = IF Len(codes) = 0 THEN "done" ELSE "acquire"
    /\ next = 1
    /\ tpc = [i \in Tasks |-> "none"]
    /\ tfund = [i \in Tasks |-> ZeroFund]
    /\ terr = [i \in Tasks |-> NilErr]
    /\ wg = Len(codes)
    /\ cpc = "wait"
    /\ foundClosed = FALSE
    /\ errCh = <<>>
    /\ errClosed = FALSE
    /\ panicked = FALSE
    /\ funds = <<>>
    /\ err = NilErr
    /\ epc = "none"
    /\ spc = "none"
    /\ econtent = <<>>
    /\ stitle = <<>>
    /\ sbody = <<>>
    /\ shouldSend = [c \in {"email", "serverChan"} |-> FALSE]
    /\ expired = FALSE
    /\ gErr = NilErr
    /\ exit = "running"
    /\ started = {}
    /\ firstAttempt = NilErr
    /\ pendingAtCapture = {}
    /\ fetchErr = NilErr
    /\ sends = [c \in {"email", "serverChan"} |-> 0]
    /\ failed = {}
    /\ formatted = {}

\* FetchFunds called on any list, after its channels, its WaitGroup and its
\* two goroutines are set up.
InitFetchFunds ==
    /\ codes \in CodeLists(MaxCodes)
    /\ env = EnvAllSet
    /\ thresholds = MainThresholds
    /\ fundResult = <<>>
    /\ mpc = "range"
    /\ InitState

\* A run of main: strings.Split never returns an empty list.
Init ==
    /\ codes \in {s \in CodeLists(MaxMainCodes) : Len(s) >= 1}
    /\ env \in EnvValues
    /\ thresholds = MainThresholds
    /\ fundResult = <<>>
    /\ mpc = "range"
    /\ InitState

\* ------------------------------------------------------------------- sort
\* The less function of sort.Slice: funds[i].Gszzl+1 < funds[j].Gszzl+1.
Less(a, b) == FloatLess(AddOne(a.Gszzl), AddOne(b.Gszzl))

Swap(s, i, j) == [s EXCEPT ![i] = s[j], ![j] = s[i]]

\* sort.Slice on a slice of at most 12 elements is an insertion sort:
\* for i := 1; i < n; i++ { for j := i; j > 0 && less(j, j-1); j-- { swap } }
RECURSIVE Sink(_, _)
Sink(s, j) ==
    IF j > 1 /\ Less(s[j], s[j - 1]) THEN Sink(Swap(s, j, j - 1), j - 1) ELSE s

RECURSIVE InsertionSort(_, _)
InsertionSort(s, i) ==
    IF i > Len(s) THEN s ELSE InsertionSort(Sink(s, i), i + 1)

\* sort.Slice(funds, less)
\* (faulty variant: the records are returned as they arrived)
SortFundsNone(s) == s
SortFunds(s) == InsertionSort(s, 2)

\* ------------------------------------------------------------- FetchFunds
\* The process is alive: log.Fatal / return from main ends every goroutine.
Running == exit = "running"

\* limiter <- struct{}{} can proceed: the buffer has room.
\* (faulty variant: the dispatcher never waits for a slot)
LimiterRoomFree == TRUE
LimiterHasRoom == limiter < concurrency

\* dispatcher: limiter <- struct{}{}
DispatcherAcquire ==
    /\ Running
    /\ dpc = "acquire"
    /\ LimiterHasRoom
    /\ limiter' = limiter + 1
    /\ dpc' = "spawn"
    /\ UNCHANGED <<codes, env, thresholds, expired, mpc, next, tpc, tfund,
                   terr, wg, cpc, foundClosed, errCh, errClosed, panicked,
                   funds, started, firstAttempt, pendingAtCapture, mvars>>

\* dispatcher: go func() {...}() for codes[next], then the next iteration
DispatcherSpawn ==
    /\ Running
    /\ dpc = "spawn"
    /\ tpc' = [tpc EXCEPT ![next] = "start"]
    /\ next' = next + 1
    /\ dpc' = IF next + 1 > Len(codes) THEN "done" ELSE "acquire"
    /\ UNCHANGED <<codes, env, thresholds, expired, mpc, limiter, tfund, terr,
                   wg, cpc, foundClosed, errCh, errClosed, panicked, funds,
                   started, firstAttempt, pendingAtCapture, mvars>>

\* if code == "" { return }
\* (faulty variant: the test is missing)
SkipNever(code) == FALSE
\* (variant: a task gives up once an error has been captured)
SkipOnCapturedError(code) == code = "" \/ errCh # <<>>
SkipCode(code) == code = ""

\* task i: the empty-code test, then the call of FetchFund
TaskStart(i) ==
    /\ Running
    /\ tpc[i] = "start"
    /\ IF SkipCode(codes[i])
       THEN /\ tpc' = [tpc EXCEPT ![i] = "done"]
            /\ UNCHANGED started
       ELSE /\ tpc' = [tpc EXCEPT ![i] = "fetch"]
            /\ started' = started \cup {i}
    /\ UNCHANGED <<codes, env, thresholds, expired, mpc, limiter, dpc, next,
                   tfund, terr, wg, cpc, foundClosed, errCh, errClosed,
                   panicked, funds, firstAttempt, pendingAtCapture, mvars>>

\* err = errors.Errorf(err, "code:%s", code)
TagError(code) == "code:" \o code

\* task i: FetchFund returns, with a fund or with an error (transport, read,
\* unmarshal, or the context's deadline).  httpClient.Do and the read of the
\* body fail once the request's context is past its deadline.
TaskFetchReturn(i) ==
    /\ Running
    /\ tpc[i] = "fetch"
    /\ \/ /\ ~expired
          /\ tfund' = [tfund EXCEPT ![i] = MkFund(codes[i], Upstream(i))]
          /\ tpc' = [tpc EXCEPT ![i] = "send"]
          /\ UNCHANGED terr
       \/ /\ terr' = [terr EXCEPT ![i] = TagError(codes[i])]
          /\ tpc' = [tpc EXCEPT ![i] = "err"]
          /\ UNCHANGED tfund
    /\ UNCHANGED <<codes, env, thresholds, expired, mpc, limiter, dpc, next,
                   wg, cpc, foundClosed, errCh, errClosed, panicked, funds,
                   started, firstAttempt, pendingAtCapture, mvars>>

\* Identifiers the dispatcher has not yet acquired a limiter slot for.
NotAdmitted == {i \in Tasks : i > next \/ (i = next /\ dpc = "acquire")}

\* select { case errCh <- err: default: } on the buffer ch
\* (faulty variant: the last error replaces the stored one)
ErrChOverwrite(ch, e) == <<e>>
ErrChOffer(ch, e) == IF Len(ch) < ErrChCap THEN Append(ch, e) ELSE ch

\* task i: the non-blocking publish of its error, then return
TaskPublishErr(i) ==
    /\ Running
    /\ tpc[i] = "err"
    /\ IF errClosed
       THEN /\ panicked' = TRUE
            /\ UNCHANGED errCh
       ELSE /\ errCh' = ErrChOffer(errCh, terr[i])
            /\ UNCHANGED panicked
    /\ firstAttempt' = IF firstAttempt = NilErr THEN terr[i] ELSE firstAttempt
    /\ pendingAtCapture' = IF firstAttempt = NilErr THEN NotAdmitted
                           ELSE pendingAtCapture
    /\ tpc' = [tpc EXCEPT ![i] = "done"]
    /\ UNCHANGED <<codes, env, thresholds, expired, mpc, limiter, dpc, next,
                   tfund, terr, wg, cpc, foundClosed, errClosed, funds,
                   started, mvars>>

\* The caller is at its receive on foundCh: the range loop runs from the
\* start, concurrently with the tasks.
\* (faulty variant: the caller drains only after wg.Wait())
ReceivingAfterWait == mpc = "range" /\ wg = 0
Receiving == mpc = "range"

\* task i: foundCh <- fund, a rendezvous with the caller's
\* for fund := range foundCh { funds = append(funds, fund) }
\* A send on a closed foundCh panics; on the open channel it waits for the
\* caller's receive.
TaskPublishFund(i) ==
    /\ Running
    /\ tpc[i] = "send"
    /\ IF foundClosed
       THEN /\ panicked' = TRUE
            /\ UNCHANGED funds
       ELSE /\ Receiving
            /\ funds' = Append(funds, tfund[i])
            /\ UNCHANGED panicked
    /\ tpc' = [tpc EXCEPT ![i] = "done"]
    /\ UNCHANGED <<codes, env, thresholds, expired, mpc, limiter, dpc, next,
                   tfund, terr, wg, cpc, foundClosed, errCh, errClosed,
                   started, firstAttempt, pendingAtCapture, mvars>>

\* task i, deferred: wg.Done()
TaskDone(i) ==
    /\ Running
    /\ tpc[i] = "done"
    /\ wg' = wg - 1
    /\ tpc' = [tpc EXCEPT ![i] = "release"]
    /\ UNCHANGED <<codes, env, thresholds, expired, mpc, limiter, dpc, next,
                   tfund, terr, cpc, foundClosed, errCh, errClosed, panicked,
                   funds, started, firstAttempt, pendingAtCapture, mvars>>

\* <-limiter takes one token out of the channel.
\* (faulty variant: the token stays in the channel)
LimiterKept(l) == l
LimiterReceived(l) == l - 1

\* task i, deferred: <-limiter
TaskRelease(i) ==
    /\ Running
    /\ tpc[i] = "release"
    /\ limiter > 0
    /\ limiter' = LimiterReceived(limiter)
    /\ tpc' = [tpc EXCEPT ![i] = "exit"]
    /\ UNCHANGED <<codes, env, thresholds, expired, mpc, dpc, next, tfund,
                   terr, wg, cpc, foundClosed, errCh, errClosed, panicked,
                   funds, started, firstAttempt, pendingAtCapture, mvars>>

\* wg.Wait() returns: the counter is zero.
\* (faulty variant: the closer does not wait for the tasks)
WaitImmediately == TRUE
\* (faulty variant: the closer waits for the dispatcher only)
WaitForDispatcher == dpc = "done"
\* (faulty variant: the closer waits for the first task only)
WaitForOneTask == wg < Len(codes) \/ wg = 0
WaitReturns == wg = 0

\* closer: wg.Wait()
CloserWait ==
    /\ Running
    /\ cpc = "wait"
    /\ WaitReturns
    /\ cpc' = "closeFound"
    /\ UNCHANGED <<codes, env, thresholds, expired, mpc, limiter, dpc, next,
                   tpc, tfund, terr, wg, foundClosed, errCh, errClosed,
                   panicked, funds, started, firstAttempt, pendingAtCapture,
                   mvars>>

\* closer: close(foundCh)
CloserCloseFound ==
    /\ Running
    /\ cpc = "closeFound"
    /\ foundClosed' = TRUE
    /\ cpc' = "closeErr"
    /\ UNCHANGED <<codes, env, thresholds, expired, mpc, limiter, dpc, next,
                   tpc, tfund, terr, wg, errCh, errClosed, panicked, funds,
                   started, firstAttempt, pendingAtCapture, mvars>>

\* closer: close(errCh)
CloserCloseErr ==
    /\ Running
    /\ cpc = "closeErr"
    /\ errClosed' = TRUE
    /\ cpc' = "done"
    /\ UNCHANGED <<codes, env, thresholds, expired, mpc, limiter, dpc, next,
                   tpc, tfund, terr, wg, foundClosed, errCh, panicked, funds,
                   started, firstAttempt, pendingAtCapture, mvars>>

\* The range over foundCh ends: the channel is closed (an unbuffered channel
\* holds nothing more to drain).
\* (faulty variant: the caller also gives up when the deadline passes)
RangeEndsOnDeadline == foundClosed \/ expired
RangeEnds == foundClosed

\* caller: the range over foundCh ends on the closed channel, then sort.Slice
MainRangeEnd ==
    /\ Running
    /\ mpc = "range"
    /\ RangeEnds
    /\ funds' = SortFunds(funds)
    /\ mpc' = "recvErr"
    /\ UNCHANGED <<codes, env, thresholds, expired, limiter, dpc, next, tpc,
                   tfund, terr, wg, cpc, foundClosed, errCh, errClosed,
                   panicked, started, firstAttempt, pendingAtCapture, mvars>>

\* <-errCh on the buffer ch: the buffered error, or nil from the closed channel
ErrChRecv(ch) == IF Len(ch) > 0 THEN Head(ch) ELSE NilErr

\* caller: return funds, <-errCh
MainRecvErr ==
    /\ Running
    /\ mpc = "recvErr"
    /\ Len(errCh) > 0 \/ errClosed
    /\ err' = ErrChRecv(errCh)
    /\ fetchErr' = ErrChRecv(errCh)
    /\ errCh' = IF Len(errCh) > 0 THEN Tail(errCh) ELSE errCh
    /\ fundResult' = funds
    /\ mpc' = "returned"
    /\ UNCHANGED <<codes, env, thresholds, expired, limiter, dpc, next, tpc,
                   tfund, terr, wg, cpc, foundClosed, errClosed, panicked,
                   funds, started, firstAttempt, pendingAtCapture, epc, spc,
                   econtent, stitle, sbody, shouldSend, gErr, exit, sends,
                   failed, formatted>>

NextFetchFunds ==
    \/ DispatcherAcquire
    \/ DispatcherSpawn
    \/ \E i \in Tasks : TaskStart(i)
    \/ \E i \in Tasks : TaskFetchReturn(i)
    \/ \E i \in Tasks : TaskPublishErr(i)
    \/ \E i \in Tasks : TaskPublishFund(i)
    \/ \E i \in Tasks : TaskDone(i)
    \/ \E i \in Tasks : TaskRelease(i)
    \/ CloserWait
    \/ CloserCloseFound
    \/ CloserCloseErr
    \/ MainRangeEnd
    \/ MainRecvErr

\* FetchFunds on its own, called on any identifier list.
SpecFetchFunds == InitFetchFunds /\ [][NextFetchFunds]_vars

\* The same under fair scheduling: a step that can be taken is eventually
\* taken (runnable goroutines run, a started FetchFund returns).
SpecFetchFundsFair == SpecFetchFunds /\ WF_vars(NextFetchFunds)

\* ctx's deadline (context.WithTimeout in main) passes while FetchFunds runs.
DeadlineExpires ==
    /\ Running
    /\ ~expired
    /\ mpc \in {"range", "recvErr"}
    /\ expired' = TRUE
    /\ UNCHANGED <<codes, env, thresholds, mpc, fvars, mvars>>

\* FetchFunds called with a context whose deadline may pass during the call.
SpecFetchFundsDeadline ==
    InitFetchFunds /\ [][NextFetchFunds \/ DeadlineExpires]_vars

\* ------------------------------------------------------------- formatters
\* GenerateEmailHTML's status of one fund: "rise", "fall" or "-".
EmailStatus(g, minRise, maxFall) ==
    IF FloatLess(Gsz(0, 0), g) /\ ~FloatLess(g, Gsz(minRise, 0)) THEN "rise"
    ELSE IF FloatLess(g, Gsz(0, 0)) /\ ~FloatLess(Gsz(maxFall, 0), g) THEN "fall"
    ELSE "-"

\* GenerateServerChanMessage's status of one fund.
\* (faulty variant: a growth equal to the minimum rise is not a rise)
ServerChanStatusStrict(g, minRise, maxFall) ==
    IF FloatLess(Gsz(0, 0), g) /\ FloatLess(Gsz(minRise, 0), g) THEN "rise"
    ELSE IF FloatLess(g, Gsz(0, 0)) /\ ~FloatLess(Gsz(maxFall, 0), g) THEN "fall"
    ELSE "-"
ServerChanStatus(g, minRise, maxFall) ==
    IF FloatLess(Gsz(0, 0), g) /\ ~FloatLess(g, Gsz(minRise, 0)) THEN "rise"
    ELSE IF FloatLess(g, Gsz(0, 0)) /\ ~FloatLess(Gsz(maxFall, 0), g) THEN "fall"
    ELSE "-"

\* GenerateEmailHTML: (emailHtml, shouldSend); "" is the empty sequence, the
\* page is its rows, one per fund.
\* (faulty variant: a page is produced only when some fund rose or fell)
GenerateEmailHTMLOnChange(fs, minRise, maxFall) ==
    LET elements ==
            [k \in 1..Len(fs) |->
                [status |-> EmailStatus(fs[k].Gszzl, minRise, maxFall),
                 fund |-> fs[k]]]
    IN  IF \E k \in 1..Len(elements) : elements[k].status # "-"
        THEN [emailHtml |-> <<"html", elements>>, shouldSend |-> TRUE]
        ELSE [emailHtml |-> <<>>, shouldSend |-> FALSE]
GenerateEmailHTML(fs, minRise, maxFall) ==
    LET elements ==
            [k \in 1..Len(fs) |->
                [status |-> EmailStatus(fs[k].Gszzl, minRise, maxFall),
                 fund |-> fs[k]]]
    IN  IF Len(elements) > 0
        THEN [emailHtml |-> <<"html", elements>>, shouldSend |-> TRUE]
        ELSE [emailHtml |-> <<>>, shouldSend |-> FALSE]

\* fallCount++ for each fund the loop over fs[1..n] finds fallen
RECURSIVE FallCount(_, _, _, _)
FallCount(fs, n, minRise, maxFall) ==
    IF n = 0 THEN 0
    ELSE FallCount(fs, n - 1, minRise, maxFall)
            + (IF ServerChanStatus(fs[n].Gszzl, minRise, maxFall) = "fall"
               THEN 1 ELSE 0)

\* GenerateServerChanMessage: (title, body, shouldSend); the title carries
\* fallCount, the body is its rows, one per fund.
GenerateServerChanMessage(fs, minRise, maxFall) ==
    LET elements ==
            [k \in 1..Len(fs) |->
                [status |-> ServerChanStatus(fs[k].Gszzl, minRise, maxFall),
                 fund |-> fs[k]]]
        fallCount == FallCount(fs, Len(fs), minRise, maxFall)
    IN  IF Len(elements) > 0
        THEN [title |-> <<"title", fallCount>>, body |-> <<"table", elements>>,
              shouldSend |-> TRUE]
        ELSE [title |-> <<>>, body |-> <<>>, shouldSend |-> FALSE]

\* The growth values the formatters are applied to (hundredths of a percent
\* point, and the tiny values), around and on the thresholds.
GrowthSamples ==
    {Gsz(-90, 0), Gsz(-80, 0), Gsz(-50, 0), Gsz(0, 0), Gsz(0, 1), Gsz(50, 0),
     Gsz(100, 0), Gsz(134, 0)}

\* The threshold pairs the formatters are applied to; maxFallNum is negative.
ThresholdSamples ==
    [minRise : {-100, 0, 50, minRiseNum}, maxFall : {maxFallNum, -50}]

\* Record sequences of at most n funds.
FundLists(n) ==
    UNION {{[k \in 1..m |-> MkFund(Ident(k), gs[k])] : gs \in [1..m -> GrowthSamples]}
            : m \in 0..n}

\* The two formatters called on any record sequence and any threshold pair.
InitFormat ==
    /\ codes = <<>>
    /\ env = EnvAllSet
    /\ thresholds \in ThresholdSamples
    /\ fundResult \in FundLists(MaxFunds)
    /\ mpc = "format"
    /\ InitState

\* content, shouldSend := GenerateEmailHTML(ctx, funds, minRiseNum, maxFallNum)
FormatEmail ==
    /\ mpc = "format"
    /\ "email" \notin formatted
    /\ LET g == GenerateEmailHTML(fundResult, thresholds.minRise,
                                  thresholds.maxFall)
       IN  /\ econtent' = g.emailHtml
           /\ shouldSend' = [shouldSend EXCEPT !["email"] = g.shouldSend]
    /\ formatted' = formatted \cup {"email"}
    /\ UNCHANGED <<codes, env, thresholds, expired, mpc, fvars, fundResult,
                   err, epc, spc, stitle, sbody, gErr, exit, fetchErr, sends,
                   failed>>

\* title, body, shouldSend := GenerateServerChanMessage(ctx, funds, ...)
FormatServerChan ==
    /\ mpc = "format"
    /\ "serverChan" \notin formatted
    /\ LET g == GenerateServerChanMessage(fundResult, thresholds.minRise,
                                          thresholds.maxFall)
       IN  /\ stitle' = g.title
           /\ sbody' = g.body
           /\ shouldSend' = [shouldSend EXCEPT !["serverChan"] = g.shouldSend]
    /\ formatted' = formatted \cup {"serverChan"}
    /\ UNCHANGED <<codes, env, thresholds, expired, mpc, fvars, fundResult, err,
                   epc, spc, econtent, gErr, exit, fetchErr, sends, failed>>

NextFormat == FormatEmail \/ FormatServerChan

\* The formatters on their own.
SpecFormat == InitFormat /\ [][NextFormat]_vars

\* ------------------------------------------------------------------- main
\* emailTo := os.Getenv("EMAIL_TO"); if emailTo == "" { emailTo = emailName }
EmailTo == IF env.EMAIL_TO = "" THEN env.EMAIL_NAME ELSE env.EMAIL_TO

\* if err != nil { log.Fatalf(...) } after FetchFunds
\* (faulty variant: the error of FetchFunds is ignored)
FetchNeverFatal(e) == FALSE
FetchFailed(e) == e # NilErr

\* main: the test of FetchFunds' error, then errgroup.WithContext and the two
\* errGroup.Go calls
MainCheckErr ==
    /\ Running
    /\ mpc = "returned"
    /\ IF FetchFailed(err)
       THEN /\ exit' = "fatal"
            /\ mpc' = "end"
            /\ UNCHANGED <<epc, spc>>
       ELSE /\ epc' = "start"
            /\ spc' = "start"
            /\ mpc' = "wait"
            /\ UNCHANGED exit
    /\ UNCHANGED <<codes, env, thresholds, expired, fvars, fundResult, err,
                   econtent, stitle, sbody, shouldSend, gErr, fetchErr, sends,
                   failed, formatted>>

\* errgroup: a task function returned e; the first non-nil error is kept.
GroupReturn(e) == IF gErr = NilErr THEN e ELSE gErr

\* smtpHost == "" || emailName == "" || emailPassword == "" || emailTo == ""
\* (faulty variant: the credential is not tested)
EmailConfigLax == env.SMTP_HOST = "" \/ env.EMAIL_NAME = ""
EmailConfigAbsent ==
    env.SMTP_HOST = "" \/ env.EMAIL_NAME = "" \/ env.EMAIL_PASSWORD = ""
        \/ EmailTo = ""

\* email task: GenerateEmailHTML, the configuration test, then either
\* return nil or the call of SendEmail
EmailStart ==
    /\ Running
    /\ epc = "start"
    /\ LET g == GenerateEmailHTML(fundResult, thresholds.minRise,
                                  thresholds.maxFall)
           send == IF EmailConfigAbsent THEN FALSE ELSE g.shouldSend
       IN  /\ econtent' = g.emailHtml
           /\ shouldSend' = [shouldSend EXCEPT !["email"] = send]
           /\ formatted' = formatted \cup {"email"}
           /\ IF ~send
              THEN /\ epc' = "exit"
                   /\ gErr' = GroupReturn(NilErr)
                   /\ UNCHANGED sends
              ELSE /\ epc' = "send"
                   /\ sends' = [sends EXCEPT !["email"] = @ + 1]
                   /\ UNCHANGED gErr
    /\ UNCHANGED <<codes, env, thresholds, expired, mpc, fvars, fundResult,
                   err, spc, stitle, sbody, exit, fetchErr, failed>>

\* email task: err = SendEmail(...), a write of the variable both closures
\* share.  SendEmail returns nil for empty content, else the dialer's result.
EmailSendReturn ==
    /\ Running
    /\ epc = "send"
    /\ \E r \in (IF econtent = <<>> THEN {NilErr} ELSE {NilErr, "content:html"}) :
        /\ err' = r
        /\ failed' = IF r # NilErr THEN failed \cup {"email"} ELSE failed
    /\ epc' = "check"
    /\ UNCHANGED <<codes, env, thresholds, expired, mpc, fvars, fundResult,
                   spc, econtent, stitle, sbody, shouldSend, gErr, exit,
                   fetchErr, sends, formatted>>

\* email task: if err != nil, a read of the shared variable
EmailCheck ==
    /\ Running
    /\ epc = "check"
    /\ IF err # NilErr
       THEN /\ epc' = "reterr"
            /\ UNCHANGED gErr
       ELSE /\ epc' = "exit"
            /\ gErr' = GroupReturn(NilErr)
    /\ UNCHANGED <<codes, env, thresholds, expired, mpc, fvars, fundResult,
                   err, spc, econtent, stitle, sbody, shouldSend, exit,
                   fetchErr, sends, failed, formatted>>

\* email task: return err, a second read of the shared variable
EmailReturnErr ==
    /\ Running
    /\ epc = "reterr"
    /\ epc' = "exit"
    /\ gErr' = GroupReturn(err)
    /\ UNCHANGED <<codes, env, thresholds, expired, mpc, fvars, fundResult,
                   err, spc, econtent, stitle, sbody, shouldSend, exit,
                   fetchErr, sends, failed, formatted>>

\* serverChan task: GenerateServerChanMessage, the key test, then either
\* return nil or the call of SendServerChan
ServerChanStart ==
    /\ Running
    /\ spc = "start"
    /\ LET g == GenerateServerChanMessage(fundResult, thresholds.minRise,
                                          thresholds.maxFall)
           send == IF env.SCKEY = "" THEN FALSE ELSE g.shouldSend
       IN  /\ stitle' = g.title
           /\ sbody' = g.body
           /\ shouldSend' = [shouldSend EXCEPT !["serverChan"] = send]
           /\ formatted' = formatted \cup {"serverChan"}
           /\ IF ~send
              THEN /\ spc' = "exit"
                   /\ gErr' = GroupReturn(NilErr)
                   /\ UNCHANGED sends
              ELSE /\ spc' = "send"
                   /\ sends' = [sends EXCEPT !["serverChan"] = @ + 1]
                   /\ UNCHANGED gErr
    /\ UNCHANGED <<codes, env, thresholds, expired, mpc, fvars, fundResult, err,
                   epc, econtent, exit, fetchErr, failed>>

\* serverChan task: err = SendServerChan(...), a write of the shared
\* variable.  SendServerChan fails on an empty title or key, else returns the
\* result of the POST.
ServerChanSendReturn ==
    /\ Running
    /\ spc = "send"
    /\ \E r \in (IF stitle = <<>> THEN {"empty title"}
                 ELSE IF env.SCKEY = "" THEN {"empty serverChanKey"}
                 ELSE {NilErr, "http get"}) :
        /\ err' = r
        /\ failed' = IF r # NilErr THEN failed \cup {"serverChan"} ELSE failed
    /\ spc' = "check"
    /\ UNCHANGED <<codes, env, thresholds, expired, mpc, fvars, fundResult,
                   epc, econtent, stitle, sbody, shouldSend, gErr, exit,
                   fetchErr, sends, formatted>>

\* serverChan task: if err != nil
ServerChanCheck ==
    /\ Running
    /\ spc = "check"
    /\ IF err # NilErr
       THEN /\ spc' = "reterr"
            /\ UNCHANGED gErr
       ELSE /\ spc' = "exit"
            /\ gErr' = GroupReturn(NilErr)
    /\ UNCHANGED <<codes, env, thresholds, expired, mpc, fvars, fundResult,
                   err, epc, econtent, stitle, sbody, shouldSend, exit,
                   fetchErr, sends, failed, formatted>>

\* serverChan task: return err
ServerChanReturnErr ==
    /\ Running
    /\ spc = "reterr"
    /\ spc' = "exit"
    /\ gErr' = GroupReturn(err)
    /\ UNCHANGED <<codes, env, thresholds, expired, mpc, fvars, fundResult,
                   err, epc, econtent, stitle, sbody, shouldSend, exit,
                   fetchErr, sends, failed, formatted>>

\* main: if err := errGroup.Wait(); err != nil { log.Fatal(err) }
MainWait ==
    /\ Running
    /\ mpc = "wait"
    /\ epc = "exit"
    /\ spc = "exit"
    /\ exit' = IF gErr # NilErr THEN "fatal" ELSE "ok"
    /\ mpc' = "end"
    /\ UNCHANGED <<codes, env, thresholds, expired, fvars, fundResult, err,
                   epc, spc, econtent, stitle, sbody, shouldSend, gErr,
                   fetchErr, sends, failed, formatted>>

NextMain ==
    \/ MainCheckErr
    \/ EmailStart
    \/ EmailSendReturn
    \/ EmailCheck
    \/ EmailReturnErr
    \/ ServerChanStart
    \/ ServerChanSendReturn
    \/ ServerChanCheck
    \/ ServerChanReturnErr
    \/ MainWait

Next == NextFetchFunds \/ NextMain

\* A whole run of the program.
Spec == Init /\ [][Next]_vars

\* ================================================================= claims
\* FetchFunds has returned to its caller.
Returned == mpc \in {"returned", "wait", "end"}
\* Tasks whose FetchFund call has started and not yet returned.
InFlight == {i \in Tasks : tpc[i] = "fetch"}
\* Positions of the non-empty identifiers.
NonEmpty == {i \in Tasks : codes[i] # ""}
\* Tasks whose fetch returned a fund, and tasks whose fetch returned an error.
Succeeded == {i \in Tasks : tfund[i] # ZeroFund}
Failed == {i \in Tasks : terr[i] # NilErr}
\* Number of positions of fs holding the fund f.
Occurrences(fs, f) == Cardinality({k \in 1..Len(fs) : fs[k] = f})

\* C1: in every reachable state of FetchFunds, for every list and every
\* interleaving, at most 3 FetchFund calls have started and not yet returned.
C1_AtMostThreeInFlight == Cardinality(InFlight) <= 3

\* Three fetches in flight while the dispatcher waits for a slot for a fourth.
C1_Witness ==
    /\ Cardinality(InFlight) = 3
    /\ dpc = "acquire"
    /\ limiter = 3

\* C2: when FetchFunds returns, every non-empty identifier's fetch has
\* finished and the result holds, exactly once each, the records of the
\* fetches that succeeded and nothing else, whether or not another fetch
\* failed; it is empty when none succeeded.
C2_ResultIsTheSuccessfulRecords ==
    Returned =>
        /\ \A i \in NonEmpty : i \in Succeeded \/ i \in Failed
        /\ Len(fundResult) = Cardinality(Succeeded)
        /\ \A i \in Succeeded : Occurrences(fundResult, tfund[i]) = 1
        /\ \A k \in 1..Len(fundResult) : \E i \in Succeeded : fundResult[k] = tfund[i]
        /\ (Succeeded = {} => fundResult = <<>>)

\* A return with two records collected although another fetch failed.
C2_Witness ==
    /\ Returned
    /\ Failed # {}
    /\ Cardinality(Succeeded) >= 2
    /\ Len(fundResult) >= 2

\* C3: FetchFunds returns a non-nil error exactly when the fetch of some
\* non-empty identifier failed; with no failure (also for an empty list or a
\* list of empty identifiers only) the error is nil.
C3_ErrorIffSomeFetchFailed ==
    Returned =>
        /\ (fetchErr # NilErr) <=> (Failed # {})
        /\ Failed \subseteq NonEmpty
        /\ (NonEmpty = {} => fetchErr = NilErr)

\* A return with an error next to a collected record.
C3_Witness ==
    /\ Returned
    /\ fetchErr # NilErr
    /\ Len(fundResult) >= 1

\* C4: first error wins.  errCh never holds more than one error; a stored
\* error stays as it is until FetchFunds receives it (a later publish attempt
\* changes nothing); a failing task's publish attempt can always proceed; and
\* the error FetchFunds returns is the one of the first publish attempt.
C4_FirstErrorWins ==
    /\ [](Len(errCh) <= 1)
    /\ [](\A i \in Tasks : tpc[i] = "err" => ENABLED TaskPublishErr(i))
    /\ [](Returned => fetchErr = firstAttempt)
    /\ [][(errCh # <<>> /\ ~(mpc = "recvErr" /\ mpc' = "returned"))
            => errCh' = errCh]_vars
    /\ [][(firstAttempt # NilErr) => firstAttempt' = firstAttempt]_vars

\* Two fetches failed and the returned error is the later identifier's,
\* whose publish attempt came first.
C4_Witness ==
    /\ Returned
    /\ \E i \in Failed : \E j \in Failed :
            i < j /\ fetchErr = terr[j] /\ fetchErr = TagError(codes[j])
                /\ firstAttempt = terr[j]

\* C5: the returned sequence is sorted ascending by Gszzl: no record is
\* followed by one of smaller growth.
C5_SortedAscending ==
    Returned =>
        \A k \in 1..(Len(fundResult) - 1) :
            ~FloatLess(fundResult[k + 1].Gszzl, fundResult[k].Gszzl)

\* C6: an empty identifier is a no-op: FetchFund is never started for it, it
\* yields no record and no error, and the fetches issued are exactly those of
\* the non-empty identifiers.
C6_EmptyIdentifierIsNoOp ==
    /\ \A i \in Tasks : codes[i] = "" =>
            /\ i \notin started
            /\ tpc[i] \notin {"fetch", "send", "err"}
            /\ tfund[i] = ZeroFund
            /\ terr[i] = NilErr
    /\ firstAttempt # TagError("")
    /\ \A k \in 1..Len(errCh) : errCh[k] # TagError("")
    /\ \A k \in 1..Len(funds) : funds[k].FundCode # ""
    /\ started \subseteq NonEmpty
    /\ (Returned => started = NonEmpty)
    /\ (Returned => Cardinality(started) = Cardinality(NonEmpty))

\* A return for a list that mixes empty and non-empty identifiers.
C6_Witness ==
    /\ Returned
    /\ NonEmpty # {}
    /\ NonEmpty # Tasks
    /\ started = NonEmpty
    /\ \A i \in Tasks : tpc[i] \in {"release", "exit"}

\* C7 as stated: no FetchFund call is ever started for an identifier that had
\* not yet been admitted when the first failure was captured in errCh.
C7_ShortCircuitOnFirstError == started \cap pendingAtCapture = {}

\* C7 as amended: there is no short-circuit.  A task that has been launched
\* for a non-empty identifier can start its fetch whatever errCh holds, and
\* when FetchFunds returns with an error every non-empty identifier has been
\* fetched, no fetch is in flight, and every fetched record is in the result.
C7_NoShortCircuit ==
    /\ \A i \in NonEmpty : tpc[i] = "start" =>
            ENABLED (TaskStart(i) /\ tpc'[i] = "fetch")
    /\ (Returned /\ fetchErr # NilErr) =>
            /\ started = NonEmpty
            /\ InFlight = {}
            /\ \A i \in NonEmpty : tpc[i] \in {"release", "exit"}
            /\ \A i \in Succeeded : Occurrences(fundResult, tfund[i]) = 1

\* A return with an error and with the record of an identifier that was
\* admitted only after the error had been captured, while a fetch that was in
\* flight at the capture has its record in the result too.
C7_Witness ==
    /\ Returned
    /\ fetchErr # NilErr
    /\ \E i \in Succeeded \cap pendingAtCapture :
            Occurrences(fundResult, tfund[i]) = 1
    /\ \E i \in Succeeded \ pendingAtCapture :
            Occurrences(fundResult, tfund[i]) = 1

\* C8: if the send of either channel fails, the run ends in failure.
C8_DeliveryFailureFailsTheRun ==
    (exit # "running" /\ failed # {}) => exit = "fatal"

\* C9: if FetchFunds returns an error, main halts fatally before any
\* formatter or send is invoked, however many records were collected.
C9_FetchErrorHaltsBeforeNotification ==
    fetchErr # NilErr =>
        /\ formatted = {}
        /\ sends["email"] = 0
        /\ sends["serverChan"] = 0
        /\ epc = "none"
        /\ spc = "none"
        /\ exit # "ok"
        /\ (mpc = "end" => exit = "fatal")

\* A fatal exit on a fetch error with a record collected.
C9_Witness ==
    /\ fetchErr # NilErr
    /\ exit = "fatal"
    /\ mpc = "end"
    /\ Len(fundResult) >= 1

\* The configuration read from the environment lacks a value the email
\* channel needs (the recipient counted as one of them), or lacks the key.
EmailEnvAbsent ==
    env.SMTP_HOST = "" \/ env.EMAIL_NAME = "" \/ env.EMAIL_PASSWORD = ""
        \/ env.EMAIL_TO = ""
\* The same without the recipient, which main replaces by the sender.
EmailEnvAbsentButRecipient ==
    env.SMTP_HOST = "" \/ env.EMAIL_NAME = "" \/ env.EMAIL_PASSWORD = ""
KeyEnvAbsent == env.SCKEY = ""

\* What "channel c is suppressed and harmless" means in a state: its send was
\* never invoked, its task is not in its send path, and it has not failed.
Suppressed(c, pc) ==
    /\ sends[c] = 0
    /\ pc \in {"none", "start", "exit"}
    /\ c \notin failed

\* C10 as stated: a channel with any of its configuration values absent
\* (SMTP host, sender, credential, recipient; the key) never sends, its task
\* ends without error, the run does not fail because of it, and the other
\* channel still sends.
C10_AbsentConfigurationSuppresses ==
    /\ EmailEnvAbsent => Suppressed("email", epc)
    /\ KeyEnvAbsent => Suppressed("serverChan", spc)

\* C10 as amended: the same for SMTP host, sender and credential, and for the
\* key; an absent recipient alone suppresses nothing (it defaults to the
\* sender).
C10_AbsentConfigurationSuppressesAmended ==
    /\ EmailEnvAbsentButRecipient => Suppressed("email", epc)
    /\ KeyEnvAbsent => Suppressed("serverChan", spc)
    /\ (EmailEnvAbsentButRecipient /\ KeyEnvAbsent) => gErr = NilErr
    /\ (EmailEnvAbsentButRecipient /\ exit = "fatal" /\ fetchErr = NilErr)
            => "serverChan" \in failed
    /\ (KeyEnvAbsent /\ exit = "fatal" /\ fetchErr = NilErr)
            => "email" \in failed
    /\ (EmailEnvAbsentButRecipient /\ ~KeyEnvAbsent /\ exit = "ok"
            /\ Len(fundResult) > 0) => sends["serverChan"] = 1
    /\ (KeyEnvAbsent /\ ~EmailEnvAbsentButRecipient /\ exit = "ok"
            /\ Len(fundResult) > 0) => sends["email"] = 1
    /\ (~EmailEnvAbsentButRecipient /\ env.EMAIL_TO = "" /\ epc = "exit"
            /\ Len(fundResult) > 0) => sends["email"] = 1

\* The credential is absent, the key is set: the run ends well, the webhook
\* was sent once, the email never.
C10_Witness ==
    /\ env.EMAIL_PASSWORD = ""
    /\ env.SMTP_HOST # ""
    /\ env.EMAIL_NAME # ""
    /\ env.SCKEY # ""
    /\ exit = "ok"
    /\ epc = "exit"
    /\ sends["email"] = 0
    /\ sends["serverChan"] = 1

\* --------------------------------------------------- formatters' claims
\* Both formatters have been applied to fundResult under thresholds.
BothFormatted == mpc = "format" /\ formatted = {"email", "serverChan"}

\* The rows of the page and of the table.
EmailRows == IF econtent = <<>> THEN <<>> ELSE econtent[2]
ServerChanRows == IF sbody = <<>> THEN <<>> ELSE sbody[2]

AtLeast(g, m) == ~FloatLess(g, Gsz(m, 0))
AtMost(g, m) == ~FloatLess(Gsz(m, 0), g)

\* The classification by the thresholds alone.
ByThresholds(g) ==
    IF AtLeast(g, thresholds.minRise) THEN "rise"
    ELSE IF AtMost(g, thresholds.maxFall) THEN "fall"
    ELSE "-"

\* The classification by the sign of the growth and the thresholds.
BySignAndThresholds(g) ==
    IF FloatLess(Gsz(0, 0), g) /\ AtLeast(g, thresholds.minRise) THEN "rise"
    ELSE IF FloatLess(g, Gsz(0, 0)) /\ AtMost(g, thresholds.maxFall) THEN "fall"
    ELSE "-"

\* Both formatters give every record the status want(growth), and the title's
\* count is the number of "fall" rows.
ClassifiedAs(want(_)) ==
    /\ Len(EmailRows) = Len(fundResult)
    /\ Len(ServerChanRows) = Len(fundResult)
    /\ \A k \in 1..Len(fundResult) :
        /\ EmailRows[k].status = ServerChanRows[k].status
        /\ EmailRows[k].status = want(fundResult[k].Gszzl)
    /\ fundResult # <<>> =>
        stitle[2] = Cardinality({k \in 1..Len(fundResult) :
                                    ServerChanRows[k].status = "fall"})

\* C11 as stated: for every record and every threshold pair with a negative
\* maximum fall, both formatters classify the record as "rise" exactly when
\* growth >= minimum rise, otherwise "fall" exactly when growth <= maximum
\* fall, otherwise neutral, and the title's fall count is the number of
\* records classified "fall".
C11_ClassifiedByThresholds ==
    BothFormatted => ClassifiedAs(ByThresholds)

\* C11 (amended): both formatters classify every record identically, as "rise"
\* exactly when growth > 0 and growth >= minimum rise, otherwise as "fall"
\* exactly when growth < 0 and growth <= maximum fall, otherwise as neutral;
\* the title's fall count is the number of records classified "fall".
C11_ClassifiedBySignAndThresholds ==
    BothFormatted => ClassifiedAs(BySignAndThresholds)

\* Formatted under a minimum rise that is not positive: a record that rose, a
\* record that fell, and a title that counts the one fall.
C11_Witness ==
    /\ BothFormatted
    /\ thresholds.minRise <= 0
    /\ \E k \in 1..Len(fundResult) : ServerChanRows[k].status = "rise"
    /\ \E k \in 1..Len(fundResult) : EmailRows[k].status = "fall"
    /\ stitle[2] = 1

\* C12: each formatter's shouldSend is true exactly when its input is
\* non-empty, whatever the statuses and the thresholds; on an empty input it
\* returns empty text and false, on a non-empty input a text.
C12_ShouldSendIffNonEmpty ==
    mpc = "format" =>
        /\ "email" \in formatted =>
            /\ shouldSend["email"] = (Len(fundResult) > 0)
            /\ (econtent = <<>>) = (fundResult = <<>>)
        /\ "serverChan" \in formatted =>
            /\ shouldSend["serverChan"] = (Len(fundResult) > 0)
            /\ (stitle = <<>>) = (fundResult = <<>>)
            /\ (sbody = <<>>) = (fundResult = <<>>)

\* A non-empty input whose records are all neutral, and both flags true.
C12_Witness ==
    /\ BothFormatted
    /\ fundResult # <<>>
    /\ \A k \in 1..Len(fundResult) :
        EmailRows[k].status = "-" /\ ServerChanRows[k].status = "-"
    /\ shouldSend["email"] /\ shouldSend["serverChan"]

\* --------------------------------------------------- orchestration claims
\* C13: under fair scheduling, with every started FetchFund returning,
\* FetchFunds eventually returns for every identifier list; and in no
\* reachable state before the return are the dispatcher, the tasks, the closer
\* and the caller all blocked.
C13_TerminatesWithoutDeadlock ==
    /\ [](Returned \/ ENABLED NextFetchFunds)
    /\ <>Returned

\* FetchFunds has returned on a list of more than 3 identifiers, some fetches
\* having failed and some succeeded.
C13_Witness ==
    /\ Returned
    /\ Len(codes) > concurrency
    /\ Failed # {}
    /\ Succeeded # {}


\* C14: when FetchFunds returns, a task has been launched for every identifier
\* and every task is past its fetch and its publish, so no FetchFund is in
\* flight; this holds too once the deadline has passed: every failure is an
\* error tagged with its identifier, and every record fetched is returned.
C14_NeverReturnsEarly ==
    Returned =>
        /\ dpc = "done"
        /\ \A i \in Tasks : tpc[i] \in {"release", "exit"}
        /\ InFlight = {}
        /\ \A i \in Failed : terr[i] = TagError(codes[i])
        /\ \A i \in Succeeded : Occurrences(fundResult, tfund[i]) = 1
        /\ Len(fundResult) = Cardinality(Succeeded)

\* FetchFunds has returned after the deadline passed, with the records fetched
\* before it and the error of a fetch that failed.
C14_Witness ==
    /\ Returned
    /\ expired
    /\ Succeeded # {}
    /\ Failed # {}
    /\ fetchErr # NilErr
    /\ Len(fundResult) = Cardinality(Succeeded)


\* Task i is past its publish step (its send on foundCh or its offer to errCh,
\* or the return of an empty identifier's task).
Published(i) == tpc[i] \in {"done", "release", "exit"}
\* Task i has returned from the body of its function, wg.Done() included.
Finished(i) == tpc[i] \in {"release", "exit"}

\* A step that closes a channel is the closer's one close of that channel.
ClosesOnce ==
    /\ foundClosed => foundClosed'
    /\ errClosed => errClosed'
    /\ foundClosed' # foundClosed => cpc = "closeFound" /\ cpc' = "closeErr"
    /\ errClosed' # errClosed => cpc = "closeErr" /\ cpc' = "done"
    /\ cpc' # cpc => <<cpc, cpc'>> \in {<<"wait", "closeFound">>,
                                        <<"closeFound", "closeErr">>,
                                        <<"closeErr", "done">>}

\* C15: the collector and the error holder are each closed exactly once, by
\* the closer, and only after every task has completed its publish step; no
\* task ever publishes to a closed collector or error holder (no panic), in
\* any interleaving.
C15_ClosedOnceAfterAllPublishes ==
    /\ [](~panicked)
    /\ [](foundClosed \/ errClosed \/ cpc # "wait" =>
            \A i \in Tasks : Published(i) /\ Finished(i))
    /\ [](errClosed => foundClosed)
    /\ [][ClosesOnce]_vars
    /\ <>(foundClosed /\ errClosed)

\* Both channels closed after a record and an error were published.
C15_Witness ==
    /\ foundClosed
    /\ errClosed
    /\ ~panicked
    /\ Succeeded # {}
    /\ Failed # {}

\* C16 as stated: the caller consumes no record from the collector until
\* every publishing task has finished.
C16_DrainsAfterAllPublishersFinish ==
    funds # <<>> => \A i \in Tasks : Published(i)

\* C16 (amended): the one drainer runs concurrently with the publishers: the
\* collector holds nothing, so each record is consumed as its task publishes
\* it; the caller stops draining only after every task has finished and the
\* collector is closed.
C16_DrainsWhilePublishersRun ==
    /\ \A i \in Succeeded : Published(i) <=> Occurrences(funds, tfund[i]) = 1
    /\ Len(funds) = Cardinality({i \in Succeeded : Published(i)})
    /\ mpc # "range" => foundClosed /\ wg = 0 /\ \A i \in Tasks : Finished(i)

\* A record has been consumed while another task is still fetching.
C16_Witness ==
    /\ mpc = "range"
    /\ funds # <<>>
    /\ InFlight # {}

\* Tasks launched (go func()) whose deferred <-limiter has not run.
HoldingSlot == {i \in Tasks : tpc[i] \notin {"none", "exit"}}

\* C17 as stated: in every reachable state the number of occupied slots equals
\* the number of launched tasks that have not yet released.
C17_SlotsAreLaunchedTasks == limiter = Cardinality(HoldingSlot)

\* C17 (amended): every launched task holds one slot, acquired by the
\* dispatcher before the task is launched, until its deferred release; the
\* occupied slots are the launched tasks that have not released, plus one
\* while the dispatcher has acquired the slot of the next task and not yet
\* launched it, and never more than 3; a task at its release is never
\* blocked, and eventually every task has released and every slot is free.
C17_SlotAccounting ==
    /\ [](limiter = Cardinality(HoldingSlot) + (IF dpc = "spawn" THEN 1 ELSE 0))
    /\ [](limiter <= concurrency)
    /\ [](\A i \in Tasks : tpc[i] = "release" => ENABLED TaskRelease(i))
    /\ [][\A i \in Tasks : tpc[i] # "exit" /\ tpc'[i] = "exit" =>
            limiter' = limiter - 1 /\ tpc[i] = "release"]_vars
    /\ <>[](limiter = 0 /\ \A i \in Tasks : tpc[i] = "exit")

\* The dispatcher holds the slot of a task it has not launched yet, next to a
\* task waiting for its response and a task waiting for the drainer.
C17_Witness ==
    /\ dpc = "spawn"
    /\ limiter = Cardinality(HoldingSlot) + 1
    /\ \E i \in Tasks : tpc[i] = "fetch"
    /\ \E i \in Tasks : tpc[i] = "send"

\* C18 as stated: no task is launched for an empty identifier, which never
\* acquires or occupies a slot.
C18_EmptyIdentifiersNeverDispatched ==
    \A i \in Tasks : codes[i] = "" =>
        tpc[i] = "none" /\ ~(dpc = "spawn" /\ next = i)

\* C18 (amended): one task is launched per identifier, empty or not; the task
\* of an empty identifier acquires a slot like any other, starts no fetch,
\* publishes nothing and goes straight to its deferred wg.Done() and release.
C18_EmptyIdentifiersSkipInsideTheirTask ==
    /\ \A i \in Tasks : codes[i] = "" =>
        /\ i \notin started
        /\ tpc[i] \in {"none", "start", "done", "release", "exit"}
        /\ tfund[i] = ZeroFund
        /\ terr[i] = NilErr
    /\ \A i \in Tasks : (i < next) = (tpc[i] # "none")
    /\ Returned => \A i \in Tasks : Finished(i)

\* The gate is full, one of its slots held by the task of an empty
\* identifier, and the dispatcher waits with a non-empty identifier.
C18_Witness ==
    /\ limiter = concurrency
    /\ dpc = "acquire"
    /\ codes[next] # ""
    /\ \E i \in Tasks : codes[i] = "" /\ tpc[i] \in {"start", "done", "release"}

\* The records of the fetches that succeeded, in the order of the list.
InListOrder ==
    SelectSeq([i \in Tasks |-> tfund[i]], LAMBDA f : f # ZeroFund)

\* The sort keys of a record sequence.
Keys(fs) == [k \in 1..Len(fs) |-> AddOne(fs[k].Gszzl)]

\* Position of the record f in fs.
Position(fs, f) == CHOOSE k \in 1..Len(fs) : fs[k] = f

====
